---- MODULE Spec2Model ----
(***************************************************************************)
(* Looker content cleanup automation (src/main.py).                        *)
(*                                                                         *)
(* main(request) runs two passes against a remote Looker instance:         *)
(*   soft pass: build the unused-content query, run it, select dashboard   *)
(*              and look ids, soft delete each, schedule one email;        *)
(*   hard pass: build the trashed-content query, run it, select ids, hard  *)
(*              delete each, schedule one email; return a status string.   *)
(*                                                                         *)
(* The remote instance is modelled as the System Activity content_usage    *)
(* explore (one row per content item usage record, joined to the dashboard *)
(* and look it refers to), a registry of created queries, and the log of   *)
(* SDK calls received.  Every SDK call may raise.                           *)
(***************************************************************************)
EXTENDS Integers, Sequences, FiniteSets, TLC

\* src/main.py:25-27
DAYS_BEFORE_SOFT_DELETE == 90
DAYS_BEFORE_HARD_DELETE == 90
NOTIFICATION_EMAIL_ADDRESS == "email@address.com"

\* Longest content_usage explore (number of rows) explored.
MaxRows == 2

\* Python None / JSON null / SQL NULL, and a present value x.
None == {}
Some(x) == {x}
\* str(x): str(None) is the text "None", str of an id is its text.
Str(x) == IF x = None THEN "None" ELSE CHOOSE s \in x : TRUE

\* datetime.today().strftime('%Y-%m-%d'), fixed during one run.
date_today == "2023-03-01"

\* str.capitalize() on the two delete types main passes.
Capitalize(s) == IF s = "soft" THEN "Soft" ELSE IF s = "hard" THEN "Hard" ELSE s

DashboardIds == {"1", "2"}
LookIds == {"9"}
\* days_since_last_accessed / days since moved to trash: around the thresholds.
DayValues == {DAYS_BEFORE_SOFT_DELETE, DAYS_BEFORE_SOFT_DELETE + 1}

(***************************************************************************)
(* The remote content_usage explore.  A dashboard row joins the dashboard  *)
(* with that id (None for a LookML dashboard, which has no row in the      *)
(* dashboard table); a look row joins the look with that id (None when the *)
(* look no longer exists).  Fields of the entity that is not joined are    *)
(* null, and a yesno dimension over a null is "No".                        *)
(***************************************************************************)
DashboardRows ==
    { [content_type |-> "dashboard", dashboard_id |-> d, look_id |-> None,
       days_since_last_accessed |-> a, dashboard_deleted |-> dd,
       look_deleted |-> None, public |-> FALSE, used_on_dashboard |-> FALSE] :
      d \in {None} \cup {Some(i) : i \in DashboardIds},
      a \in DayValues,
      dd \in {None} \cup {Some(t) : t \in DayValues} }

LookRows ==
    { [content_type |-> "look", dashboard_id |-> None, look_id |-> l,
       days_since_last_accessed |-> a, dashboard_deleted |-> None,
       look_deleted |-> ld, public |-> p, used_on_dashboard |-> u] :
      l \in {None} \cup {Some(i) : i \in LookIds},
      a \in DayValues,
      ld \in {None} \cup {Some(t) : t \in DayValues},
      p \in BOOLEAN, u \in BOOLEAN }

\* A row that joins no entity carries no entity attribute.
WellJoined(r) ==
    /\ (r.dashboard_id = None => r.dashboard_deleted = None)
    /\ (r.look_id = None => r.look_deleted = None /\ ~r.public /\ ~r.used_on_dashboard)

ExploreRows == { r \in DashboardRows \cup LookRows : WellJoined(r) }

SameContent(r, s) ==
    /\ r.content_type = s.content_type
    /\ r.dashboard_id = s.dashboard_id
    /\ r.look_id = s.look_id
    /\ (r.dashboard_id # None \/ r.look_id # None)

\* The attributes of one dashboard or look are the same in every row joining it.
Consistent(t) ==
    \A i, j \in 1..Len(t) : SameContent(t[i], t[j]) => t[i] = t[j]

\* sorts=["content_usage.last_accessed_date"]: ascending last-accessed date is
\* descending days-since-last-accessed; the order of ties is the engine's.
SortedByLastAccessed(t) ==
    \A i, j \in 1..Len(t) :
        i < j => t[i].days_since_last_accessed >= t[j].days_since_last_accessed

SeqsUpTo(S, n) == UNION { [1..k -> S] : k \in 0..n }

Explores ==
    { t \in SeqsUpTo(ExploreRows, MaxRows) : Consistent(t) /\ SortedByLastAccessed(t) }

(***************************************************************************)
(* Query definitions (models40.WriteQuery bodies).                         *)
(***************************************************************************)
\* UnusedContentQuery with a filter_expression that lets trashed content through.
UnusedContentQuery_keeps_trashed(days) ==
    [ view |-> "content_usage",
      fields |-> <<"dashboard.id", "look.id", "content_usage.content_title",
                   "content_usage.content_type", "content_usage.last_accessed_date">>,
      days_since_last_accessed |-> Some(days),
      content_type |-> {"dashboard", "look"},
      is_used_on_dashboard |-> Some("No"),
      public |-> Some("No"),
      days_since_moved_to_trash |-> None,
      filter_expression |-> [then |-> "yes", else |-> "yes"],
      limit |-> 50000 ]

\* filter_expression: if(<either deleted_date is not null>, then, else)
UnusedContentQuery(days) ==
    [ view |-> "content_usage",
      fields |-> <<"dashboard.id", "look.id", "content_usage.content_title",
                   "content_usage.content_type", "content_usage.last_accessed_date">>,
      days_since_last_accessed |-> Some(days),
      content_type |-> {"dashboard", "look"},
      is_used_on_dashboard |-> Some("No"),
      public |-> Some("No"),
      days_since_moved_to_trash |-> None,
      filter_expression |-> [then |-> "no", else |-> "yes"],
      limit |-> 50000 ]

DeletedContentQuery(days) ==
    [ view |-> "content_usage",
      fields |-> <<"dashboard.id", "look.id", "content_usage.content_title",
                   "content_usage.content_type", "content_usage.last_accessed_date",
                   "dashboard.deleted_date", "look.deleted_date">>,
      days_since_last_accessed |-> None,
      content_type |-> {"dashboard", "look"},
      is_used_on_dashboard |-> None,
      public |-> None,
      days_since_moved_to_trash |-> Some(days),
      filter_expression |-> [then |-> "yes", else |-> "no"],
      limit |-> 50000 ]

(***************************************************************************)
(* The remote query engine.                                                *)
(***************************************************************************)
YesNo(b) == IF b THEN "Yes" ELSE "No"

\* A numeric filter ">d" on a possibly-null value; no filter passes everything.
GreaterThan(value, filter) ==
    filter = None \/ \E v \in value : \E d \in filter : v > d

\* A "Yes"/"No" filter on a yesno dimension.
YesNoIs(b, filter) == filter = None \/ YesNo(b) \in filter

Coalesce(a, b) == IF a # None THEN a ELSE b

\* if(is_null(${dashboard.deleted_date}) = no OR is_null(${look.deleted_date}) = no, then, else)
FilterExpression(q, r) ==
    LET cond == (r.dashboard_deleted # None) \/ (r.look_deleted # None)
    IN  (IF cond THEN q.filter_expression.then ELSE q.filter_expression.else) = "yes"

Matches(q, r) ==
    /\ r.content_type \in q.content_type
    /\ GreaterThan(Some(r.days_since_last_accessed), q.days_since_last_accessed)
    /\ YesNoIs(r.used_on_dashboard, q.is_used_on_dashboard)
    /\ YesNoIs(r.public, q.public)
    /\ GreaterThan(Coalesce(r.dashboard_deleted, r.look_deleted), q.days_since_moved_to_trash)
    /\ FilterExpression(q, r)

HasField(q, f) == \E i \in 1..Len(q.fields) : q.fields[i] = f

\* One result row: the fields of the query (the title plays no part in the program).
ResultRow(q, r) ==
    [ dashboard_id |-> r.dashboard_id,
      look_id |-> r.look_id,
      content_type |-> r.content_type,
      last_accessed |-> r.days_since_last_accessed,
      dashboard_deleted |-> IF HasField(q, "dashboard.deleted_date")
                            THEN r.dashboard_deleted ELSE None,
      look_deleted |-> IF HasField(q, "look.deleted_date") THEN r.look_deleted ELSE None ]

Min(a, b) == IF a <= b THEN a ELSE b

\* sdk.run_query on success: filter, keep the sort order, cap at the limit.
QueryRows(q, explore) ==
    LET hits == SelectSeq(explore, LAMBDA r : Matches(q, r))
        kept == SubSeq(hits, 1, Min(Len(hits), q.limit))
    IN  [i \in 1..Len(kept) |-> ResultRow(q, kept[i])]

(***************************************************************************)
(* Content selector (pure).                                                *)
(***************************************************************************)
\* get_dashboard_ids without the content type test.
RECURSIVE get_dashboard_ids_any_type(_)
get_dashboard_ids_any_type(content) ==
    IF content = <<>> THEN <<>>
    ELSE LET dashboard == Head(content)
             rest == get_dashboard_ids_any_type(Tail(content))
         IN  IF dashboard.dashboard_id # None
             THEN <<dashboard.dashboard_id>> \o rest
             ELSE rest

RECURSIVE get_dashboard_ids(_)
get_dashboard_ids(content) ==
    IF content = <<>> THEN <<>>
    ELSE LET dashboard == Head(content)
             rest == get_dashboard_ids(Tail(content))
         IN  IF dashboard.content_type = "dashboard" /\ dashboard.dashboard_id # None
             THEN <<dashboard.dashboard_id>> \o rest
             ELSE rest

\* get_look_ids with the non-null test get_dashboard_ids has.
RECURSIVE get_look_ids_non_null(_)
get_look_ids_non_null(content) ==
    IF content = <<>> THEN <<>>
    ELSE LET look == Head(content)
             rest == get_look_ids_non_null(Tail(content))
         IN  IF look.content_type = "look" /\ look.look_id # None
             THEN <<look.look_id>> \o rest
             ELSE rest

RECURSIVE get_look_ids(_)
get_look_ids(content) ==
    IF content = <<>> THEN <<>>
    ELSE LET look == Head(content)
             rest == get_look_ids(Tail(content))
         IN  IF look.content_type = "look"
             THEN <<look.look_id>> \o rest
             ELSE rest

(***************************************************************************)
(* The SDK.  `fault` is what the remote does with the call: None when it   *)
(* answers, Some(e) when the call raises e.  Each operator gives the new   *)
(* remote state, the value returned and the exception raised (None: none). *)
(***************************************************************************)
Faults == {None, Some("SDKError")}
\* sdk.run_query followed by json.loads: the call or the parse may raise.
RunFaults == Faults \cup {Some("JSONDecodeError")}

\* sdk.create_query: registers the definition, allocates the next query id.
sdk_create_query(body, qs, fault) ==
    IF fault # None
    THEN [queries |-> qs, id |-> None, raised |-> fault]
    ELSE [queries |-> Append(qs, body), id |-> Some(Len(qs) + 1), raised |-> None]

\* json.loads(sdk.run_query(query_id, "json", cache=True))
sdk_run_query(query_id, qs, ex, fault) ==
    IF fault # None \/ query_id = None
    THEN [rows |-> <<>>, raised |-> IF fault # None THEN fault ELSE Some("SDKError")]
    ELSE [rows |-> QueryRows(qs[CHOOSE n \in query_id : TRUE], ex), raised |-> None]

\* The deleted_date a write of the deleted flag leaves behind: cleared by False,
\* set to today (0 days in the trash) by True unless already set.
Flagged(deleted_date, deleted) ==
    IF ~deleted THEN None
    ELSE IF deleted_date # None THEN deleted_date ELSE Some(0)

\* sdk.update_dashboard(id, body=WriteDashboard(deleted=...))
sdk_update_dashboard(id, body, ex, fault) ==
    IF fault # None
    THEN [explore |-> ex, raised |-> fault]
    ELSE [explore |->
            [i \in 1..Len(ex) |->
                IF ex[i].dashboard_id = Some(id)
                THEN [ex[i] EXCEPT !.dashboard_deleted = Flagged(@, body.deleted)]
                ELSE ex[i]],
          raised |-> None]

\* sdk.update_look(id, body=WriteLookWithQuery(deleted=...))
sdk_update_look(id, body, ex, fault) ==
    IF fault # None
    THEN [explore |-> ex, raised |-> fault]
    ELSE [explore |->
            [i \in 1..Len(ex) |->
                IF ex[i].look_id = Some(id)
                THEN [ex[i] EXCEPT !.look_deleted = Flagged(@, body.deleted)]
                ELSE ex[i]],
          raised |-> None]

\* A log entry for an SDK call received by the remote.
SdkCall(name, arg, fault) ==
    [kind |-> "sdk", name |-> name, arg |-> arg, ok |-> (fault = None), ret |-> <<>>]
\* A log entry for a function of the program that returned `ret`.
FnReturn(name, arg, ret) ==
    [kind |-> "fn", name |-> name, arg |-> arg, ok |-> TRUE, ret |-> ret]

\* What a call of a function leaves in the log: its return, unless it raised.
Returned(name, arg, r) ==
    IF r.raised = None THEN <<FnReturn(name, arg, r.ret)>> ELSE <<>>

(***************************************************************************)
(* Mutators and notifier.  Each gives the new remote state, the SDK calls  *)
(* made, the value returned, and the exception that escapes (None: none).  *)
(***************************************************************************)
\* soft_delete_dashboard with the dry run switched off (deleted=True).
soft_delete_dashboard_live(dashboard_id, ex, fault) ==
    LET dashboard == [deleted |-> TRUE]
        r == sdk_update_dashboard(Str(dashboard_id), dashboard, ex, fault)
    IN  [ explore |-> r.explore,
          calls |-> <<SdkCall("update_dashboard", <<Str(dashboard_id), dashboard>>, fault)>>,
          ret |-> IF r.raised = None
                  THEN <<"Successfully soft deleted dashboard: ", Str(dashboard_id)>>
                  ELSE <<"Error with soft deleting dashboard (", Str(dashboard_id), "): ",
                         Str(r.raised)>>,
          raised |-> None ]

soft_delete_dashboard(dashboard_id, ex, fault) ==
    LET dashboard == [deleted |-> FALSE]
        r == sdk_update_dashboard(Str(dashboard_id), dashboard, ex, fault)
    IN  [ explore |-> r.explore,
          calls |-> <<SdkCall("update_dashboard", <<Str(dashboard_id), dashboard>>, fault)>>,
          ret |-> IF r.raised = None
                  THEN <<"Successfully soft deleted dashboard: ", Str(dashboard_id)>>
                  ELSE <<"Error with soft deleting dashboard (", Str(dashboard_id), "): ",
                         Str(r.raised)>>,
          raised |-> None ]

\* soft_delete_look without its try/except: the SDK's exception escapes.
soft_delete_look_unguarded(look_id, ex, fault) ==
    LET look == [deleted |-> FALSE]
        r == sdk_update_look(Str(look_id), look, ex, fault)
    IN  [ explore |-> r.explore,
          calls |-> <<SdkCall("update_look", <<Str(look_id), look>>, fault)>>,
          ret |-> <<"Successfully soft deleted Look: ", Str(look_id)>>,
          raised |-> r.raised ]

soft_delete_look(look_id, ex, fault) ==
    LET look == [deleted |-> FALSE]
        r == sdk_update_look(Str(look_id), look, ex, fault)
    IN  [ explore |-> r.explore,
          calls |-> <<SdkCall("update_look", <<Str(look_id), look>>, fault)>>,
          ret |-> IF r.raised = None
                  THEN <<"Successfully soft deleted Look: ", Str(look_id)>>
                  ELSE <<"Error with soft deleting Look (", Str(look_id), "): ",
                         Str(r.raised)>>,
          raised |-> None ]

\* sdk.delete_dashboard(id): the dashboard is gone, its usage rows join nothing.
sdk_delete_dashboard(id, ex, fault) ==
    IF fault # None
    THEN [explore |-> ex, raised |-> fault]
    ELSE [explore |->
            [i \in 1..Len(ex) |->
                IF ex[i].dashboard_id = Some(id)
                THEN [ex[i] EXCEPT !.dashboard_id = None, !.dashboard_deleted = None]
                ELSE ex[i]],
          raised |-> None]

\* hard_delete_dashboard with the sdk.delete_dashboard call uncommented.
hard_delete_dashboard_enabled(dashboard_id, ex, fault) ==
    LET r == sdk_delete_dashboard(Str(dashboard_id), ex, fault)
    IN  [ explore |-> r.explore,
          calls |-> <<SdkCall("delete_dashboard", Str(dashboard_id), fault)>>,
          ret |-> IF r.raised = None
                  THEN <<"Successfully permanently deleted dashboard: ", Str(dashboard_id)>>
                  ELSE <<"Error with permanently deleting dashboard (", Str(dashboard_id),
                         "): ", Str(r.raised)>>,
          raised |-> None ]

\* The sdk.delete_dashboard call is commented out: no SDK call is made.
hard_delete_dashboard(dashboard_id, ex, fault) ==
    [ explore |-> ex,
      calls |-> <<>>,
      ret |-> <<"Successfully permanently deleted dashboard: ", Str(dashboard_id)>>,
      raised |-> None ]

\* The sdk.delete_look call is commented out: no SDK call is made.
hard_delete_look(look_id, ex, fault) ==
    [ explore |-> ex,
      calls |-> <<>>,
      ret |-> <<"Successfully permanently deleted Look: ", Str(look_id)>>,
      raised |-> None ]

\* send_content_notification without its try/except: the SDK's exception escapes.
send_content_notification_unguarded(query_id, delete_type, address, fault) ==
    LET unused_content_notification ==
            [name |-> <<"[Looker Automation] ", Capitalize(delete_type),
                        " deleted content (", date_today, ").">>,
             query_id |-> query_id,
             scheduled_plan_destination |->
                <<[format |-> "csv", type |-> "email", address |-> address,
                   message |-> <<"List of dashboards and Looks that were ", delete_type,
                                 " deleted on ", date_today, ".">>,
                   apply_formatting |-> FALSE, apply_vis |-> FALSE]>>]
    IN  [ calls |-> <<SdkCall("scheduled_plan_run_once", unused_content_notification, fault)>>,
          ret |-> <<"ScheduledPlan", unused_content_notification>>,
          raised |-> fault ]

send_content_notification(query_id, delete_type, address, fault) ==
    LET scheduled_plan_destination_body ==
            [format |-> "csv", type |-> "email", address |-> address,
             message |-> <<"List of dashboards and Looks that were ", delete_type,
                           " deleted on ", date_today, ".">>,
             apply_formatting |-> FALSE, apply_vis |-> FALSE]
        unused_content_notification ==
            [name |-> <<"[Looker Automation] ", Capitalize(delete_type),
                        " deleted content (", date_today, ").">>,
             query_id |-> query_id,
             scheduled_plan_destination |-> <<scheduled_plan_destination_body>>]
    IN  [ calls |-> <<SdkCall("scheduled_plan_run_once", unused_content_notification, fault)>>,
          ret |-> IF fault = None
                  THEN <<"ScheduledPlan", unused_content_notification>>
                  ELSE <<"Error sending ", delete_type, " delete email notification (",
                         date_today, "): ", Str(fault)>>,
          raised |-> None ]

(***************************************************************************)
(* main(request)                                                           *)
(***************************************************************************)
VARIABLES
    explore,                    \* the remote content_usage explore
    explore0,                   \* the explore as it was when main started
    queries,                    \* the remote registry of created queries
    log,                        \* SDK calls received and functions returned, in order
    pc,                         \* where main is: [pass, at]
    idx,                        \* position of the running for loop
    result,                     \* what main returned (None: nothing yet)
    unused_content_query_id, unused_content, unused_dashboard_ids, unused_look_ids,
    deleted_content_query_id, deleted_content, deleted_dashboard_ids, deleted_look_ids

locals == <<unused_content_query_id, unused_content, unused_dashboard_ids, unused_look_ids,
            deleted_content_query_id, deleted_content, deleted_dashboard_ids,
            deleted_look_ids>>
vars == <<explore, explore0, queries, log, pc, idx, result, locals>>

At(pass, at) == [pass |-> pass, at |-> at]

\* main swallowing a query error and going on to the notification of the pass.
Propagate_swallowed(pass) == At(pass, "notify")

\* main giving up the pass of a query error only: a soft pass error starts the hard pass.
Propagate_pass_only(pass) ==
    IF pass = "soft" THEN At("hard", "build") ELSE At(pass, "raised")

\* An exception no try block of main catches ends main.
Propagate(pass) == At(pass, "raised")

\* main running the look loop before the dashboard loop.
EnterLoops_looks_first(pass, dashboard_ids, look_ids) ==
    IF look_ids # <<>> THEN At(pass, "looks")
    ELSE IF dashboard_ids # <<>> THEN At(pass, "dashboards")
    ELSE At(pass, "notify")

\* Where main goes once the ids of a pass are selected: the first for loop that
\* has something to iterate over, else the notification.
EnterLoops(pass, dashboard_ids, look_ids) ==
    IF dashboard_ids # <<>> THEN At(pass, "dashboards")
    ELSE IF look_ids # <<>> THEN At(pass, "looks")
    ELSE At(pass, "notify")

\* Entries of one step, marked with the pass of main that made them.
Mark(pass, entries) == [i \in 1..Len(entries) |-> [pass |-> pass, e |-> entries[i]]]

Init ==
    /\ explore \in Explores
    /\ explore0 = explore
    /\ queries = <<>>
    /\ log = <<>>
    /\ pc = At("soft", "build")
    /\ idx = 1
    /\ result = None
    /\ unused_content_query_id = None
    /\ unused_content = <<>>
    /\ unused_dashboard_ids = <<>>
    /\ unused_look_ids = <<>>
    /\ deleted_content_query_id = None
    /\ deleted_content = <<>>
    /\ deleted_dashboard_ids = <<>>
    /\ deleted_look_ids = <<>>

\* main, lines 34-35
GetUnusedContentQueryId ==
    /\ pc = At("soft", "build")
    /\ \E fault \in Faults :
        LET body == UnusedContentQuery(DAYS_BEFORE_SOFT_DELETE)
            r == sdk_create_query(body, queries, fault)
        IN  /\ queries' = r.queries
            /\ log' = log \o Mark("soft", <<SdkCall("create_query", body, fault)>>)
            /\ unused_content_query_id' = r.id
            /\ pc' = IF r.raised = None THEN At("soft", "run") ELSE Propagate("soft")
    /\ UNCHANGED <<explore, explore0, idx, result, unused_content, unused_dashboard_ids,
                   unused_look_ids, deleted_content_query_id, deleted_content,
                   deleted_dashboard_ids, deleted_look_ids>>

\* main, line 36
GetUnusedContent ==
    /\ pc = At("soft", "run")
    /\ \E fault \in RunFaults :
        LET r == sdk_run_query(unused_content_query_id, queries, explore, fault)
        IN  /\ log' = log \o Mark("soft", <<SdkCall("run_query", unused_content_query_id, fault)>>)
            /\ unused_content' = r.rows
            /\ pc' = IF r.raised = None THEN At("soft", "select") ELSE Propagate("soft")
    /\ UNCHANGED <<explore, explore0, queries, idx, result, unused_content_query_id,
                   unused_dashboard_ids, unused_look_ids, deleted_content_query_id,
                   deleted_content, deleted_dashboard_ids, deleted_look_ids>>

\* main, lines 37-38
SelectUnused ==
    /\ pc = At("soft", "select")
    /\ unused_dashboard_ids' = get_dashboard_ids(unused_content)
    /\ unused_look_ids' = get_look_ids(unused_content)
    /\ pc' = EnterLoops("soft", unused_dashboard_ids', unused_look_ids')
    /\ idx' = 1
    /\ UNCHANGED <<explore, explore0, queries, log, result, unused_content_query_id,
                   unused_content, deleted_content_query_id, deleted_content,
                   deleted_dashboard_ids, deleted_look_ids>>

\* main, lines 40-41: one iteration
SoftDeleteDashboard ==
    /\ pc = At("soft", "dashboards")
    /\ \E fault \in Faults :
        LET dashboard_id == unused_dashboard_ids[idx]
            r == soft_delete_dashboard(dashboard_id, explore, fault)
            last == idx = Len(unused_dashboard_ids)
        IN  /\ explore' = r.explore
            /\ log' = log \o Mark("soft",
                         r.calls \o Returned("soft_delete_dashboard", dashboard_id, r))
            /\ pc' = IF r.raised # None THEN Propagate("soft")
                     ELSE IF last THEN EnterLoops("soft", <<>>, unused_look_ids)
                     ELSE pc
            /\ idx' = IF last THEN 1 ELSE idx + 1
    /\ UNCHANGED <<explore0, queries, result, locals>>

\* main, lines 43-44: one iteration
SoftDeleteLook ==
    /\ pc = At("soft", "looks")
    /\ \E fault \in Faults :
        LET look_id == unused_look_ids[idx]
            r == soft_delete_look(look_id, explore, fault)
            last == idx = Len(unused_look_ids)
        IN  /\ explore' = r.explore
            /\ log' = log \o Mark("soft",
                         r.calls \o Returned("soft_delete_look", look_id, r))
            /\ pc' = IF r.raised # None THEN Propagate("soft")
                     ELSE IF last THEN At("soft", "notify")
                     ELSE pc
            /\ idx' = IF last THEN 1 ELSE idx + 1
    /\ UNCHANGED <<explore0, queries, result, locals>>

\* main, lines 46-50
SoftNotify ==
    /\ pc = At("soft", "notify")
    /\ \E fault \in Faults :
        LET r == send_content_notification(unused_content_query_id, "soft",
                                           NOTIFICATION_EMAIL_ADDRESS, fault)
        IN  /\ log' = log \o Mark("soft",
                         r.calls \o Returned("send_content_notification", unused_content_query_id, r))
            /\ pc' = IF r.raised # None THEN Propagate("soft") ELSE At("hard", "build")
    /\ UNCHANGED <<explore, explore0, queries, idx, result, locals>>

\* main, lines 53-54
GetDeletedContentQueryId ==
    /\ pc = At("hard", "build")
    /\ \E fault \in Faults :
        LET body == DeletedContentQuery(DAYS_BEFORE_HARD_DELETE)
            r == sdk_create_query(body, queries, fault)
        IN  /\ queries' = r.queries
            /\ log' = log \o Mark("hard", <<SdkCall("create_query", body, fault)>>)
            /\ deleted_content_query_id' = r.id
            /\ pc' = IF r.raised = None THEN At("hard", "run") ELSE Propagate("hard")
    /\ UNCHANGED <<explore, explore0, idx, result, unused_content_query_id, unused_content,
                   unused_dashboard_ids, unused_look_ids, deleted_content,
                   deleted_dashboard_ids, deleted_look_ids>>

\* main, line 55
GetDeletedContent ==
    /\ pc = At("hard", "run")
    /\ \E fault \in RunFaults :
        LET r == sdk_run_query(deleted_content_query_id, queries, explore, fault)
        IN  /\ log' = log \o Mark("hard", <<SdkCall("run_query", deleted_content_query_id, fault)>>)
            /\ deleted_content' = r.rows
            /\ pc' = IF r.raised = None THEN At("hard", "select") ELSE Propagate("hard")
    /\ UNCHANGED <<explore, explore0, queries, idx, result, unused_content_query_id,
                   unused_content, unused_dashboard_ids, unused_look_ids,
                   deleted_content_query_id, deleted_dashboard_ids, deleted_look_ids>>

\* main, lines 56-57
SelectDeleted ==
    /\ pc = At("hard", "select")
    /\ deleted_dashboard_ids' = get_dashboard_ids(deleted_content)
    /\ deleted_look_ids' = get_look_ids(deleted_content)
    /\ pc' = EnterLoops("hard", deleted_dashboard_ids', deleted_look_ids')
    /\ idx' = 1
    /\ UNCHANGED <<explore, explore0, queries, log, result, unused_content_query_id,
                   unused_content, unused_dashboard_ids, unused_look_ids,
                   deleted_content_query_id, deleted_content>>

\* main, lines 59-60: one iteration
HardDeleteDashboard ==
    /\ pc = At("hard", "dashboards")
    /\ \E fault \in Faults :
        LET dashboard_id == deleted_dashboard_ids[idx]
            r == hard_delete_dashboard(dashboard_id, explore, fault)
            last == idx = Len(deleted_dashboard_ids)
        IN  /\ explore' = r.explore
            /\ log' = log \o Mark("hard",
                         r.calls \o Returned("hard_delete_dashboard", dashboard_id, r))
            /\ pc' = IF r.raised # None THEN Propagate("hard")
                     ELSE IF last THEN EnterLoops("hard", <<>>, deleted_look_ids)
                     ELSE pc
            /\ idx' = IF last THEN 1 ELSE idx + 1
    /\ UNCHANGED <<explore0, queries, result, locals>>

\* main, lines 62-63: one iteration
HardDeleteLook ==
    /\ pc = At("hard", "looks")
    /\ \E fault \in Faults :
        LET look_id == deleted_look_ids[idx]
            r == hard_delete_look(look_id, explore, fault)
            last == idx = Len(deleted_look_ids)
        IN  /\ explore' = r.explore
            /\ log' = log \o Mark("hard",
                         r.calls \o Returned("hard_delete_look", look_id, r))
            /\ pc' = IF r.raised # None THEN Propagate("hard")
                     ELSE IF last THEN At("hard", "notify")
                     ELSE pc
            /\ idx' = IF last THEN 1 ELSE idx + 1
    /\ UNCHANGED <<explore0, queries, result, locals>>

StatusString == "Successfully ran soft delete and hard delete content automation."

\* main, lines 65-71: the second notification, then the return
HardNotify ==
    /\ pc = At("hard", "notify")
    /\ \E fault \in Faults :
        LET r == send_content_notification(deleted_content_query_id, "hard",
                                           NOTIFICATION_EMAIL_ADDRESS, fault)
        IN  /\ log' = log \o Mark("hard",
                         r.calls \o Returned("send_content_notification", deleted_content_query_id, r))
            /\ pc' = IF r.raised # None THEN Propagate("hard") ELSE At("hard", "done")
            /\ result' = IF r.raised # None THEN None ELSE Some(StatusString)
    /\ UNCHANGED <<explore, explore0, queries, idx, locals>>

Next ==
    \/ GetUnusedContentQueryId
    \/ GetUnusedContent
    \/ SelectUnused
    \/ SoftDeleteDashboard
    \/ SoftDeleteLook
    \/ SoftNotify
    \/ GetDeletedContentQueryId
    \/ GetDeletedContent
    \/ SelectDeleted
    \/ HardDeleteDashboard
    \/ HardDeleteLook
    \/ HardNotify

Spec == Init /\ [][Next]_vars

(***************************************************************************)
(* The content selector on arbitrary row sequences: main at lines 37-38    *)
(* with any rows the remote may have answered.                             *)
(***************************************************************************)
\* Longest row sequence given to the content selector.
MaxContent == 3

ContentRows ==
    { [dashboard_id |-> d, look_id |-> l, content_type |-> t, last_accessed |-> a,
       dashboard_deleted |-> None, look_deleted |-> None] :
      d \in {None} \cup {Some(i) : i \in DashboardIds},
      l \in {None} \cup {Some(i) : i \in LookIds},
      t \in {"dashboard", "look"},
      a \in {DAYS_BEFORE_SOFT_DELETE + 1} }

InitSel ==
    /\ explore = <<>>
    /\ explore0 = explore
    /\ queries = <<UnusedContentQuery(DAYS_BEFORE_SOFT_DELETE)>>
    /\ log = <<>>
    /\ pc = At("soft", "select")
    /\ idx = 1
    /\ result = None
    /\ unused_content_query_id = Some(1)
    /\ unused_content \in SeqsUpTo(ContentRows, MaxContent)
    /\ unused_dashboard_ids = <<>>
    /\ unused_look_ids = <<>>
    /\ deleted_content_query_id = None
    /\ deleted_content = <<>>
    /\ deleted_dashboard_ids = <<>>
    /\ deleted_look_ids = <<>>

NextSel == SelectUnused

SpecSel == InitSel /\ [][NextSel]_vars

(***************************************************************************)
(* Reading the log.                                                        *)
(***************************************************************************)
IsSdk(i, name) == log[i].e.kind = "sdk" /\ log[i].e.name = name
IsFn(i, name) == log[i].e.kind = "fn" /\ log[i].e.name = name
Positions == 1..Len(log)

\* The entries of a log that satisfy Keep, in order.
Only(l, Keep(_)) == SelectSeq(l, Keep)

ExistingDashboards(ex) == { ex[i].dashboard_id : i \in 1..Len(ex) } \ {None}
ExistingLooks(ex) == { ex[i].look_id : i \in 1..Len(ex) } \ {None}

Terminated == pc.at \in {"done", "raised"}

(***************************************************************************)
(* C1.  The hard delete functions make no irreversible remote call and     *)
(* return a success string for every id; no dashboard or look that existed *)
(* before the run is gone at any point of it.                              *)
(***************************************************************************)
C1_HardDeleteIsDryRun ==
    /\ \A i \in Positions :
        /\ ~IsSdk(i, "delete_dashboard")
        /\ ~IsSdk(i, "delete_look")
        /\ IsFn(i, "hard_delete_dashboard") =>
                log[i].e.ret = <<"Successfully permanently deleted dashboard: ",
                                 Str(log[i].e.arg)>>
        /\ IsFn(i, "hard_delete_look") =>
                log[i].e.ret = <<"Successfully permanently deleted Look: ",
                                 Str(log[i].e.arg)>>
    /\ ExistingDashboards(explore0) \subseteq ExistingDashboards(explore)
    /\ ExistingLooks(explore0) \subseteq ExistingLooks(explore)

\* A finished run that hard deleted a dashboard and a look.
C1_Witness ==
    /\ pc = At("hard", "done")
    /\ \E i, j \in Positions : IsFn(i, "hard_delete_dashboard") /\ IsFn(j, "hard_delete_look")

(***************************************************************************)
(* C2.  Every update sent by soft_delete_dashboard and soft_delete_look    *)
(* carries deleted = False, whatever the id; no content item whose deleted *)
(* date was unset when the run started has it set at any point of the run. *)
(***************************************************************************)
C2_SoftDeleteIsDryRun ==
    /\ \A i \in Positions :
        (IsSdk(i, "update_dashboard") \/ IsSdk(i, "update_look"))
            => log[i].e.arg[2].deleted = FALSE
    /\ \A k \in 1..Len(explore) :
        /\ explore0[k].dashboard_deleted = None => explore[k].dashboard_deleted = None
        /\ explore0[k].look_deleted = None => explore[k].look_deleted = None

\* Both update calls were answered by the remote.
C2_Witness ==
    \E i, j \in Positions :
        /\ IsSdk(i, "update_dashboard") /\ log[i].e.ok
        /\ IsSdk(j, "update_look") /\ log[j].e.ok

(***************************************************************************)
(* More reading of the log and of main's position.                         *)
(***************************************************************************)
\* main has selected the ids of the pass / has left the for loops of the pass.
Selected(pass) ==
    \/ pc.pass = pass /\ pc.at \in {"dashboards", "looks", "notify", "done"}
    \/ pass = "soft" /\ pc.pass = "hard"
PastLoops(pass) ==
    \/ pc.pass = pass /\ pc.at \in {"notify", "done"}
    \/ pass = "soft" /\ pc.pass = "hard"
Finished(pass) ==
    \/ pc.pass = pass /\ pc.at = "done"
    \/ pass = "soft" /\ pc.pass = "hard"

\* The functions that returned during a pass, as <<name, argument>>, in order.
FnOps(pass) ==
    LET fns == SelectSeq(log, LAMBDA x : x.pass = pass /\ x.e.kind = "fn")
    IN  [i \in 1..Len(fns) |-> <<fns[i].e.name, fns[i].e.arg>>]

\* The arguments one function was called with during a pass, in order.
FnArgs(pass, name) ==
    LET fns == SelectSeq(log, LAMBDA x : x.pass = pass /\ x.e.kind = "fn" /\ x.e.name = name)
    IN  [i \in 1..Len(fns) |-> fns[i].e.arg]

ArgSet(name) == { log[i].e.arg : i \in { j \in Positions : IsFn(j, name) } }

IsPrefix(a, b) == Len(a) <= Len(b) /\ \A i \in 1..Len(a) : a[i] = b[i]

QueryFailed(i) == (IsSdk(i, "create_query") \/ IsSdk(i, "run_query")) /\ ~log[i].e.ok
UpdateFailed(i) == (IsSdk(i, "update_dashboard") \/ IsSdk(i, "update_look")) /\ ~log[i].e.ok
NotifyFailed(i) == IsSdk(i, "scheduled_plan_run_once") /\ ~log[i].e.ok

\* ids is what is left of content when the rows Keep rejects are dropped and each
\* kept row is replaced by Id of it: same order, same multiplicity.
IsProjection(ids, content, Keep(_), Id(_)) ==
    LET picked == { i \in 1..Len(content) : Keep(content[i]) }
        rank(i) == Cardinality({ j \in picked : j <= i })
    IN  /\ Len(ids) = Cardinality(picked)
        /\ \A i \in picked : ids[rank(i)] = Id(content[i])

IsDashboardRow(r) == r.content_type = "dashboard" /\ r.dashboard_id # None
IsLookRow(r) == r.content_type = "look"
DashboardIdOf(r) == r.dashboard_id
LookIdOf(r) == r.look_id

(***************************************************************************)
(* C3.  Batch isolation: a failing update call is turned into an error     *)
(* string returned by the mutator, never into an exception of main; once   *)
(* main has left the loops of a pass the mutators have been called for     *)
(* every selected dashboard id and every selected look id, whichever calls *)
(* failed; and the notification of the pass follows.                       *)
(***************************************************************************)
C3_BatchIsolation ==
    /\ \A i \in Positions :
        UpdateFailed(i) =>
            /\ i < Len(log)
            /\ log[i + 1].e.kind = "fn"
            /\ IsSdk(i, "update_dashboard") =>
                    /\ log[i + 1].e.name = "soft_delete_dashboard"
                    /\ log[i + 1].e.ret[1] = "Error with soft deleting dashboard ("
            /\ IsSdk(i, "update_look") =>
                    /\ log[i + 1].e.name = "soft_delete_look"
                    /\ log[i + 1].e.ret[1] = "Error with soft deleting Look ("
    /\ pc.at = "raised" => (log # <<>> /\ QueryFailed(Len(log)))
    /\ PastLoops("soft") =>
            /\ FnArgs("soft", "soft_delete_dashboard") = unused_dashboard_ids
            /\ FnArgs("soft", "soft_delete_look") = unused_look_ids
    /\ PastLoops("hard") =>
            /\ FnArgs("hard", "hard_delete_dashboard") = deleted_dashboard_ids
            /\ FnArgs("hard", "hard_delete_look") = deleted_look_ids
    /\ Finished("soft") =>
            \E i \in Positions : IsSdk(i, "scheduled_plan_run_once") /\ log[i].pass = "soft"
    /\ Finished("hard") =>
            \E i \in Positions : IsSdk(i, "scheduled_plan_run_once") /\ log[i].pass = "hard"

\* The first of two dashboard updates of a batch failed, the second was made, the
\* email followed.
C3_Witness ==
    /\ \E i, j, k \in Positions :
        /\ i < j /\ j < k
        /\ IsSdk(i, "update_dashboard") /\ ~log[i].e.ok
        /\ IsSdk(j, "update_dashboard")
        /\ IsSdk(k, "scheduled_plan_run_once")

(***************************************************************************)
(* C4.  A failing schedule-once call makes send_content_notification       *)
(* return "Error sending <kind> delete email notification ..." instead of  *)
(* raising; the notification step leaves the remote content as it is and   *)
(* never ends main; after a failed soft notification main runs the hard    *)
(* pass, and returns its status string when the hard queries succeed.      *)
(***************************************************************************)
SoftNotifyFailed == \E i \in Positions : NotifyFailed(i) /\ log[i].pass = "soft"

C4_State ==
    /\ \A i \in Positions :
        NotifyFailed(i) =>
            /\ i < Len(log)
            /\ IsFn(i + 1, "send_content_notification")
            /\ log[i + 1].e.ret[1] = "Error sending "
            /\ log[i + 1].e.ret[2] = log[i].pass
            /\ log[i + 1].e.ret[3] = " delete email notification ("
    /\ SoftNotifyFailed =>
            /\ pc.pass = "hard"
            /\ pc.at = "raised" => (QueryFailed(Len(log)) /\ log[Len(log)].pass = "hard")
            /\ pc.at = "done" =>
                    /\ result = Some(StatusString)
                    /\ FnArgs("hard", "hard_delete_dashboard") = deleted_dashboard_ids
                    /\ FnArgs("hard", "hard_delete_look") = deleted_look_ids

C4_Step ==
    pc.at = "notify" => (explore' = explore /\ pc'.at # "raised")

C4_NotificationFailureIsNotFatal == [](C4_State) /\ [][C4_Step]_vars

\* The soft notification failed after a soft delete was applied, and main returned.
C4_Witness ==
    /\ result = Some(StatusString)
    /\ SoftNotifyFailed
    /\ \E i \in Positions : IsSdk(i, "update_dashboard") /\ log[i].e.ok
    /\ \E i \in Positions : IsFn(i, "hard_delete_dashboard")

(***************************************************************************)
(* C5.  A failed create_query or run_query (or parse) is fatal for its     *)
(* pass: nothing of that pass follows it - no mutator, no notification,    *)
(* no second attempt of either query call.                                 *)
(***************************************************************************)
C5_QueryErrorIsFatalForPass ==
    /\ \A i \in Positions :
        QueryFailed(i) => \A j \in Positions : j > i => log[j].pass # log[i].pass
    /\ \A pass \in {"soft", "hard"} : \A name \in {"create_query", "run_query"} :
        Cardinality({ i \in Positions : IsSdk(i, name) /\ log[i].pass = pass }) <= 1

\* The hard pass query failed to run although there was trashed content to select.
C5_Witness ==
    /\ pc = At("hard", "raised")
    /\ IsSdk(Len(log), "run_query") /\ ~log[Len(log)].e.ok
    /\ QueryRows(DeletedContentQuery(DAYS_BEFORE_HARD_DELETE), explore) # <<>>

(***************************************************************************)
(* C6.  No dashboard id is given both to soft_delete_dashboard and to      *)
(* hard_delete_dashboard in one run, and no look id both to                *)
(* soft_delete_look and to hard_delete_look: what the soft pass selects    *)
(* has no deleted date, what the hard pass selects has one.                *)
(***************************************************************************)
C6_PassesAreDisjoint ==
    /\ ArgSet("soft_delete_dashboard") \cap ArgSet("hard_delete_dashboard") = {}
    /\ ArgSet("soft_delete_look") \cap ArgSet("hard_delete_look") = {}
    /\ \A k \in 1..Len(explore0) :
        LET r == explore0[k]
        IN  /\ (r.dashboard_id # None /\ r.dashboard_id \in ArgSet("soft_delete_dashboard"))
                    => r.dashboard_deleted = None
            /\ (r.look_id # None /\ r.look_id \in ArgSet("soft_delete_look"))
                    => r.look_deleted = None
            /\ (r.dashboard_id # None /\ r.dashboard_id \in ArgSet("hard_delete_dashboard"))
                    => r.dashboard_deleted # None
            /\ (r.look_id # None /\ r.look_id \in ArgSet("hard_delete_look"))
                    => r.look_deleted # None

\* A finished run that soft deleted one dashboard and hard deleted another.
C6_Witness ==
    /\ pc = At("hard", "done")
    /\ ArgSet("soft_delete_dashboard") # {}
    /\ ArgSet("hard_delete_dashboard") # {}

(***************************************************************************)
(* C7.  In a pass whose query succeeded the functions called are exactly:  *)
(* the mutator for each selected dashboard id in result order, then the    *)
(* mutator for each selected look id in result order, then one             *)
(* notification with the query id the pass ran; nothing of the soft pass   *)
(* comes after anything of the hard pass.                                  *)
(***************************************************************************)
ExpectedOps(dashboard_mutator, look_mutator, content, query_id) ==
    LET dashboards == SelectSeq(content, IsDashboardRow)
        looks == SelectSeq(content, IsLookRow)
    IN  [i \in 1..Len(dashboards) |-> <<dashboard_mutator, dashboards[i].dashboard_id>>]
        \o [i \in 1..Len(looks) |-> <<look_mutator, looks[i].look_id>>]
        \o << <<"send_content_notification", query_id>> >>

ExpectedSoft ==
    ExpectedOps("soft_delete_dashboard", "soft_delete_look", unused_content,
                unused_content_query_id)
ExpectedHard ==
    ExpectedOps("hard_delete_dashboard", "hard_delete_look", deleted_content,
                deleted_content_query_id)

\* The query calls and the notification of a pass name one registered query.
OneQuery(pass, query_id, body) ==
    \A i \in Positions :
        log[i].pass = pass =>
            /\ (IsSdk(i, "run_query") => log[i].e.arg = query_id)
            /\ (IsSdk(i, "scheduled_plan_run_once") =>
                    /\ log[i].e.arg.query_id = query_id
                    /\ query_id # None
                    /\ \A n \in query_id : queries[n] = body)

C7_PassOrder ==
    /\ IsPrefix(FnOps("soft"), ExpectedSoft)
    /\ IsPrefix(FnOps("hard"), ExpectedHard)
    /\ Finished("soft") => FnOps("soft") = ExpectedSoft
    /\ Finished("hard") => FnOps("hard") = ExpectedHard
    /\ \A i, j \in Positions : (i < j /\ log[i].pass = "hard") => log[j].pass = "hard"
    /\ OneQuery("soft", unused_content_query_id, UnusedContentQuery(DAYS_BEFORE_SOFT_DELETE))
    /\ OneQuery("hard", deleted_content_query_id, DeletedContentQuery(DAYS_BEFORE_HARD_DELETE))
    /\ \A pass \in {"soft", "hard"} :
        Cardinality({ i \in Positions :
                        IsSdk(i, "scheduled_plan_run_once") /\ log[i].pass = pass }) <= 1

\* A finished run whose soft pass handled a dashboard and a look.
C7_Witness ==
    /\ pc = At("hard", "done")
    /\ Len(unused_dashboard_ids) = 1
    /\ Len(unused_look_ids) = 1
    /\ Len(FnOps("soft")) = 3

(***************************************************************************)
(* C8.  get_dashboard_ids gives the dashboard id of each row whose content *)
(* type is dashboard and whose dashboard id is not null: in row order,     *)
(* duplicates kept, nothing from any other row.                            *)
(***************************************************************************)
C8_DashboardIds ==
    Selected("soft") =>
        IsProjection(unused_dashboard_ids, unused_content, IsDashboardRow, DashboardIdOf)

\* A duplicated dashboard id around a look row that carries a dashboard id.
C8_Witness ==
    /\ Selected("soft")
    /\ Len(unused_content) = 3
    /\ unused_content[2].content_type = "look"
    /\ unused_content[2].dashboard_id = Some("1")
    /\ unused_dashboard_ids = <<Some("2"), Some("2")>>

(***************************************************************************)
(* C9.  get_look_ids gives the look id of each row whose content type is   *)
(* look, in row order, null ids included; the look mutator of the pass is  *)
(* called with each of them, so with a null id where a look row has none.  *)
(***************************************************************************)
C9_LookIds ==
    /\ Selected("soft") =>
            IsProjection(unused_look_ids, unused_content, IsLookRow, LookIdOf)
    /\ Selected("hard") =>
            IsProjection(deleted_look_ids, deleted_content, IsLookRow, LookIdOf)
    /\ PastLoops("soft") =>
            IsProjection(FnArgs("soft", "soft_delete_look"), unused_content,
                         IsLookRow, LookIdOf)
    /\ PastLoops("hard") =>
            IsProjection(FnArgs("hard", "hard_delete_look"), deleted_content,
                         IsLookRow, LookIdOf)
    /\ \A i \in Positions :
        IsFn(i, "soft_delete_look") =>
            /\ IsSdk(i - 1, "update_look")
            /\ log[i - 1].e.arg[1] = Str(log[i].e.arg)

\* soft_delete_look was called with None and sent the id "None" to the remote.
C9_Witness ==
    \E i \in Positions :
        /\ IsFn(i, "soft_delete_look")
        /\ log[i].e.arg = None
        /\ log[i - 1].e.arg[1] = "None"

(***************************************************************************)
(* C10.  A query error of the soft pass ends main: nothing follows it, the *)
(* hard pass query is never built and main returns nothing.  When main has *)
(* ended, it has returned its status string exactly if the four query      *)
(* calls succeeded, whatever the mutators and the notifications returned.  *)
(***************************************************************************)
AllQueriesOk ==
    \A pass \in {"soft", "hard"} : \A name \in {"create_query", "run_query"} :
        \E i \in Positions : IsSdk(i, name) /\ log[i].pass = pass /\ log[i].e.ok

C10_SoftErrorEndsRun ==
    /\ \A i \in Positions :
        (QueryFailed(i) /\ log[i].pass = "soft") =>
            /\ i = Len(log)
            /\ pc = At("soft", "raised")
            /\ result = None
            /\ deleted_content_query_id = None
            /\ Len(queries) <= 1
    /\ Terminated => (result = Some(StatusString) <=> AllQueriesOk)
    /\ result # None => pc = At("hard", "done")

\* main returned although an update and both notifications failed.
C10_Witness ==
    /\ result = Some(StatusString)
    /\ \E i \in Positions : UpdateFailed(i)
    /\ \E i, j \in Positions :
        /\ NotifyFailed(i) /\ log[i].pass = "soft"
        /\ NotifyFailed(j) /\ log[j].pass = "hard"

====
